---- MODULE Spec2Model ----
(***************************************************************************)
(* Model of the Database<T> collection engine of mbext-database            *)
(* (src/src/index.ts): an insertion-ordered id -> document map kept in     *)
(* memory and persisted as one JSON text under one dynamic property of a   *)
(* host storage object.                                                    *)
(*                                                                         *)
(* A document is a function from field names to values (JS key order is    *)
(* not modelled: no operation of the class depends on it except the order  *)
(* of keys inside the JSON text, which Stringify fixes to the order of     *)
(* Fields).  The in-memory Map is a sequence of <<id, document>> pairs     *)
(* with pairwise distinct ids, in insertion order.  A text is a sequence   *)
(* of tokens; the empty sequence stands for both an absent property and    *)
(* the empty string, which the code treats alike (both are falsy).         *)
(***************************************************************************)
EXTENDS Integers, Sequences, FiniteSets, TLC

\* Largest collection size the model lets create/import/construct build.
MaxSize == 2

\* The identifier space.  The code draws 16 hex digits; the model keeps
\* three identifiers so that collisions between draws and keys do happen.
IdSpace == {"0a", "1b", "2c"}

\* Field names of the document type T, in the order JSON text lists them.
Fields == <<"name", "age">>

NameVals == {<<"A", "n">>, <<"b">>}
AgeVals == {2, 3}

DocAn3 == [name |-> <<"A", "n">>, age |-> 3]
DocAn2 == [name |-> <<"A", "n">>, age |-> 2]
DocB2 == [name |-> <<"b">>, age |-> 2]

\* Complete documents (type T) handed to create.
Docs == {DocAn3, DocB2}

EmptyDoc == [f \in {} |-> 0]

\* Patches (type Partial<T>) handed to update: no field, one field, every
\* field.
Patches == {EmptyDoc, [age |-> 2], DocAn3}

(***************************************************************************)
(* The in-memory Map<string, T>.                                           *)
(***************************************************************************)
Keys(m) == {m[i][1] : i \in DOMAIN m}

Has(m, id) == id \in Keys(m)

IndexOf(m, id) == CHOOSE i \in DOMAIN m : m[i][1] = id

\* Map.get: only used on present keys (absent keys are tested with Has).
Get(m, id) == m[IndexOf(m, id)][2]

\* Mutant of MapSet: a present key is removed and set again at the end.
MapSet_MovesToEnd(m, id, doc) ==
    Append(SelectSeq(m, LAMBDA e : e[1] # id), <<id, doc>>)

\* Map.set: a present key keeps its position, a new key goes to the end.
MapSet(m, id, doc) ==
    IF Has(m, id)
    THEN [m EXCEPT ![IndexOf(m, id)] = <<id, doc>>]
    ELSE Append(m, <<id, doc>>)

\* Map.delete: removes the entry, the others keep their relative order.
MapDelete(m, id) ==
    IF Has(m, id)
    THEN LET k == IndexOf(m, id)
         IN  SubSeq(m, 1, k - 1) \o SubSeq(m, k + 1, Len(m))
    ELSE m

(***************************************************************************)
(* Validators.  A CollectionValidator is a map from some field names to    *)
(* predicates; a predicate is given by the values it accepts, and by       *)
(* whether it accepts undefined (the value of a missing field).            *)
(***************************************************************************)
NoValidators == [present |-> FALSE, preds |-> EmptyDoc]

\* { age: v => v > 2 }
AgeValidator ==
    [present |-> TRUE, preds |-> [age |-> [undef |-> FALSE, vals |-> {3}]]]

\* { name: v => v !== "b", age: v => v === undefined || v > 0 }
NameValidator ==
    [present |-> TRUE,
     preds |-> [name |-> [undef |-> TRUE, vals |-> {<<"A", "n">>}],
                age |-> [undef |-> TRUE, vals |-> AgeVals]]]

ValidatorMaps == {NoValidators, AgeValidator, NameValidator}

Accepts(pred, doc, key) ==
    IF key \in DOMAIN doc THEN doc[key] \in pred.vals ELSE pred.undef

\* Mutant of validate: some() in place of every().
validate_Some(v, doc) ==
    IF ~v.present THEN TRUE
    ELSE \E key \in DOMAIN v.preds : Accepts(v.preds[key], doc, key)

validate(v, doc) ==
    IF ~v.present THEN TRUE
    ELSE \A key \in DOMAIN v.preds : Accepts(v.preds[key], doc, key)

(***************************************************************************)
(* JSON text.  A text is a sequence of tokens: the punctuation of JSON,    *)
(* one token per character of a string value, one token per digit of a     *)
(* number, and one token for a whole identifier or field name.             *)
(***************************************************************************)
Quote == "\""

Digits == <<"0", "1", "2", "3", "4", "5", "6", "7", "8", "9">>

DigitSet == {Digits[k] : k \in DOMAIN Digits}

DigitVal(tok) == (CHOOSE k \in DOMAIN Digits : Digits[k] = tok) - 1

RECURSIVE NumTok(_)
NumTok(n) ==
    IF n < 10 THEN <<Digits[n + 1]>>
    ELSE NumTok(n \div 10) \o <<Digits[(n % 10) + 1]>>

StrTok(chars) == <<Quote>> \o chars \o <<Quote>>

\* JSON.stringify of a field value: name is a string, age is a number.
StringifyValue(f, val) == IF f = "name" THEN StrTok(val) ELSE NumTok(val)

RECURSIVE StringifyMembers(_, _)
StringifyMembers(doc, fs) ==
    IF fs = <<>> THEN <<>>
    ELSE StrTok(<<Head(fs)>>) \o <<":">> \o StringifyValue(Head(fs), doc[Head(fs)])
         \o (IF Len(fs) > 1 THEN <<",">> \o StringifyMembers(doc, Tail(fs)) ELSE <<>>)

StringifyDoc(doc) ==
    <<"{">> \o StringifyMembers(doc, SelectSeq(Fields, LAMBDA f : f \in DOMAIN doc))
            \o <<"}">>

RECURSIVE StringifyEntries(_)
StringifyEntries(m) ==
    IF m = <<>> THEN <<>>
    ELSE <<"[">> \o StrTok(<<m[1][1]>>) \o <<",">> \o StringifyDoc(m[1][2]) \o <<"]">>
         \o (IF Len(m) > 1 THEN <<",">> \o StringifyEntries(Tail(m)) ELSE <<>>)

\* JSON.stringify(Array.from(this.data.entries()))
Stringify(m) == <<"[">> \o StringifyEntries(m) \o <<"]">>

\* The text of an empty collection: "[]".
EmptySnapshot == <<"[", "]">>

(***************************************************************************)
(* JSON.parse followed by the destructuring of every element as [id, doc]: *)
(* ok is FALSE when either of them throws.                                 *)
(***************************************************************************)
Fail == [ok |-> FALSE, val |-> <<>>, next |-> 0]

Tok(t, i) == IF i \in DOMAIN t THEN t[i] ELSE ""

\* Body applied to the value of e, with e evaluated once (const k = e; ...).
With(e, Body(_)) == CHOOSE res \in {Body(x) : x \in {e}} : TRUE

ParseString(t, i) ==
    IF Tok(t, i) # Quote THEN Fail
    ELSE With({j \in (i + 1)..Len(t) : t[j] = Quote}, LAMBDA closes :
             IF closes = {} THEN Fail
             ELSE With(CHOOSE c \in closes : \A d \in closes : c <= d, LAMBDA j :
                      [ok |-> TRUE, val |-> SubSeq(t, i + 1, j - 1), next |-> j + 1]))

RECURSIVE ParseDigits(_, _, _)
ParseDigits(t, i, acc) ==
    IF Tok(t, i) \in DigitSet
    THEN ParseDigits(t, i + 1, 10 * acc + DigitVal(t[i]))
    ELSE [ok |-> TRUE, val |-> acc, next |-> i]

ParseValue(t, i) ==
    IF Tok(t, i) = Quote THEN ParseString(t, i)
    ELSE IF Tok(t, i) \in DigitSet THEN ParseDigits(t, i, 0)
    ELSE Fail

\* The members of an object from position i on; a repeated key keeps the
\* last value.
RECURSIVE ParseMembers(_, _, _)
ParseMembers(t, i, acc) ==
    With(ParseString(t, i), LAMBDA k :
        IF ~k.ok \/ Len(k.val) # 1 \/ Tok(t, k.next) # ":" THEN Fail
        ELSE With(ParseValue(t, k.next + 1), LAMBDA v :
                 IF ~v.ok THEN Fail
                 ELSE With((k.val[1] :> v.val) @@ acc, LAMBDA doc :
                          IF Tok(t, v.next) = "," THEN ParseMembers(t, v.next + 1, doc)
                          ELSE IF Tok(t, v.next) = "}"
                          THEN [ok |-> TRUE, val |-> doc, next |-> v.next + 1]
                          ELSE Fail)))

ParseObject(t, i) ==
    IF Tok(t, i) # "{" THEN Fail
    ELSE IF Tok(t, i + 1) = "}" THEN [ok |-> TRUE, val |-> EmptyDoc, next |-> i + 2]
    ELSE ParseMembers(t, i + 1, EmptyDoc)

\* One element of the array, destructured as [id, doc].
ParseEntry(t, i) ==
    IF Tok(t, i) # "[" THEN Fail
    ELSE With(ParseString(t, i + 1), LAMBDA id :
             IF ~id.ok \/ Len(id.val) # 1 \/ Tok(t, id.next) # "," THEN Fail
             ELSE With(ParseObject(t, id.next + 1), LAMBDA doc :
                      IF ~doc.ok \/ Tok(t, doc.next) # "]" THEN Fail
                      ELSE [ok |-> TRUE, val |-> <<id.val[1], doc.val>>,
                            next |-> doc.next + 1]))

RECURSIVE ParseEntryList(_, _, _)
ParseEntryList(t, i, acc) ==
    With(ParseEntry(t, i), LAMBDA e :
        IF ~e.ok THEN Fail
        ELSE With(Append(acc, e.val), LAMBDA list :
                 IF Tok(t, e.next) = "," THEN ParseEntryList(t, e.next + 1, list)
                 ELSE IF Tok(t, e.next) = "]"
                 THEN [ok |-> TRUE, val |-> list, next |-> e.next + 1]
                 ELSE Fail))

\* The parsed entry array, or ok = FALSE when the text is not an entry list.
Parse(t) ==
    With(IF Tok(t, 1) # "[" THEN Fail
         ELSE IF Tok(t, 2) = "]" THEN [ok |-> TRUE, val |-> <<>>, next |-> 3]
         ELSE ParseEntryList(t, 2, <<>>),
         LAMBDA r : IF r.ok /\ r.next = Len(t) + 1 THEN [ok |-> TRUE, val |-> r.val]
                    ELSE [ok |-> FALSE, val |-> <<>>])

(***************************************************************************)
(* The operations.  Each one is a function of the instance state (the map  *)
(* m, the stored text st, the validators v), its arguments, and the        *)
(* outcome of every setDynamicProperty call it makes (TRUE: the host       *)
(* stored the text, FALSE: the host threw).  The result gives the new map, *)
(* the new stored text, the returned value and the outcomes of the writes  *)
(* attempted, in order.                                                    *)
(***************************************************************************)
RetTrue == "true"
RetFalse == "false"
RetNull == "null"
RetVoid == "undefined"
Threw == "Error: Invalid data format"

NoId == ""

Bool(b) == IF b THEN RetTrue ELSE RetFalse

\* Mutant of saveChanges: the catch block returns true as well.
saveChanges_ReportsSuccess(m, st, ok) ==
    [store |-> IF ok THEN Stringify(m) ELSE st, ret |-> TRUE]

saveChanges(m, st, ok) ==
    [store |-> IF ok THEN Stringify(m) ELSE st, ret |-> ok]

\* Mutant of generateId: the loop condition dropped, any draw is returned.
generateId_NoCheck(m) == IdSpace

\* The identifiers the do-while loop can return: a draw that is a key of the
\* map is drawn again, every other draw is returned.
generateId(m) == {id \in IdSpace : ~Has(m, id)}

\* findById: the entry of id, or undefined (found = FALSE).
findById(m, id) ==
    IF Has(m, id) THEN [found |-> TRUE, id |-> id, data |-> Get(m, id)]
    ELSE [found |-> FALSE, id |-> NoId, data |-> EmptyDoc]

\* The size accessor, which count() with no condition returns.
size(m) == Len(m)

(***************************************************************************)
(* Values as the read operations compare them.  A name is a string (a      *)
(* sequence of characters), an age is a number; a condition value has the  *)
(* type of the field it is compared with.                                  *)
(***************************************************************************)
\* The letters of the model's strings, in UTF-16 code unit order.
Alphabet == <<"A", "B", "N", "a", "b", "n">>

CharCode(c) == CHOOSE k \in DOMAIN Alphabet : Alphabet[k] = c

LowerChar(c) ==
    IF c = "A" THEN "a" ELSE IF c = "B" THEN "b" ELSE IF c = "N" THEN "n" ELSE c

\* String.prototype.toLowerCase
ToLowerCase(str) == [i \in DOMAIN str |-> LowerChar(str[i])]

\* String(value) of a field value.
StringOf(f, val) == IF f = "name" THEN val ELSE NumTok(val)

\* String.prototype.includes / startsWith / endsWith
Includes(str, t) ==
    \E i \in 1..(Len(str) - Len(t) + 1) : SubSeq(str, i, i + Len(t) - 1) = t

StartsWith(str, t) == Len(t) <= Len(str) /\ SubSeq(str, 1, Len(t)) = t

EndsWith(str, t) ==
    Len(t) <= Len(str) /\ SubSeq(str, Len(str) - Len(t) + 1, Len(str)) = t

\* a < b on two strings: the first differing code unit decides, a proper
\* prefix is smaller.
RECURSIVE StrLess(_, _)
StrLess(a, b) ==
    IF b = <<>> THEN FALSE
    ELSE IF a = <<>> THEN TRUE
    ELSE IF a[1] = b[1] THEN StrLess(Tail(a), Tail(b))
    ELSE CharCode(a[1]) < CharCode(b[1])

\* a < b on two values of field f.
Less(f, a, b) == IF f = "name" THEN StrLess(a, b) ELSE a < b

Operators == {"==", "!=", ">", "<", ">=", "<=", "contains", "startsWith", "endsWith"}

\* Mutant of evaluateCondition: '>=' evaluated as '>'.
evaluateCondition_StrictGe(doc, condition) ==
    LET f == condition.field
        value == doc[f]
        conditionValue == condition.value
        o == condition.operator
    IN  IF o = "==" THEN value = conditionValue
        ELSE IF o = "!=" THEN value # conditionValue
        ELSE IF o = ">" THEN Less(f, conditionValue, value)
        ELSE IF o = "<" THEN Less(f, value, conditionValue)
        ELSE IF o = ">=" THEN Less(f, conditionValue, value)
        ELSE IF o = "<=" THEN ~Less(f, conditionValue, value)
        ELSE IF o = "contains"
        THEN Includes(ToLowerCase(StringOf(f, value)),
                      ToLowerCase(StringOf(f, conditionValue)))
        ELSE IF o = "startsWith"
        THEN StartsWith(ToLowerCase(StringOf(f, value)),
                        ToLowerCase(StringOf(f, conditionValue)))
        ELSE IF o = "endsWith"
        THEN EndsWith(ToLowerCase(StringOf(f, value)),
                      ToLowerCase(StringOf(f, conditionValue)))
        ELSE FALSE

evaluateCondition(doc, condition) ==
    LET f == condition.field
        value == doc[f]
        conditionValue == condition.value
        o == condition.operator
    IN  IF o = "==" THEN value = conditionValue
        ELSE IF o = "!=" THEN value # conditionValue
        ELSE IF o = ">" THEN Less(f, conditionValue, value)
        ELSE IF o = "<" THEN Less(f, value, conditionValue)
        ELSE IF o = ">=" THEN ~Less(f, value, conditionValue)
        ELSE IF o = "<=" THEN ~Less(f, conditionValue, value)
        ELSE IF o = "contains"
        THEN Includes(ToLowerCase(StringOf(f, value)),
                      ToLowerCase(StringOf(f, conditionValue)))
        ELSE IF o = "startsWith"
        THEN StartsWith(ToLowerCase(StringOf(f, value)),
                        ToLowerCase(StringOf(f, conditionValue)))
        ELSE IF o = "endsWith"
        THEN EndsWith(ToLowerCase(StringOf(f, value)),
                      ToLowerCase(StringOf(f, conditionValue)))
        ELSE FALSE

(***************************************************************************)
(* The read operations, as the value they return.  A list of              *)
(* { id, data } objects is a sequence of <<id, document>> pairs.           *)
(***************************************************************************)
\* A predicate function is given by the documents it returns true for;
\* present is FALSE when the argument is left out.
NoPredicate == [present |-> FALSE, accepts |-> {}]

\* Mutant of findMany: the predicate is not applied.
findMany_NoFilter(m, predicate) == m

findMany(m, predicate) ==
    IF predicate.present
    THEN SelectSeq(m, LAMBDA e : e[2] \in predicate.accepts)
    ELSE m

\* The result of findOne: the first element of a list, or undefined.
First(list) ==
    IF list = <<>> THEN [found |-> FALSE, id |-> NoId, data |-> EmptyDoc]
    ELSE [found |-> TRUE, id |-> list[1][1], data |-> list[1][2]]

findOne(m, predicate) == First(findMany(m, predicate))

\* findLike(term, fields?): searchFields holds the given fields, or the keys
\* of the document when fields is left out.
NoFields == [present |-> FALSE, names |-> {}]

\* String(data[field]): the text 'undefined' for a field the document lacks.
FieldString(doc, field) ==
    IF field \in DOMAIN doc THEN StringOf(field, doc[field])
    ELSE <<"u", "n", "d", "e", "f", "i", "n", "e", "d">>

\* Mutant of findLike: the text of the field is not lower-cased.
findLike_CaseSensitive(m, term, fields) ==
    SelectSeq(m, LAMBDA e :
        \E field \in (IF fields.present THEN fields.names ELSE DOMAIN e[2]) :
            Includes(FieldString(e[2], field), ToLowerCase(term)))

findLike(m, term, fields) ==
    SelectSeq(m, LAMBDA e :
        \E field \in (IF fields.present THEN fields.names ELSE DOMAIN e[2]) :
            Includes(ToLowerCase(FieldString(e[2], field)), ToLowerCase(term)))

\* count(condition?)
NoCondition == [present |-> FALSE, field |-> "age", operator |-> "==", value |-> 0]

\* Mutant of count: the condition is ignored.
count_IgnoresCondition(m, condition) == size(m)

count(m, condition) ==
    IF ~condition.present THEN size(m)
    ELSE Len(SelectSeq(m, LAMBDA e : evaluateCondition(e[2], condition)))

\* export(): the text of the entries.
export(m) == Stringify(m)

\* aVal === bVal for the values two documents have for field f: a field
\* that a document lacks has the value undefined, which is identical to
\* itself only.
StrictEquals(f, a, b) ==
    IF f \in DOMAIN a /\ f \in DOMAIN b THEN a[f] = b[f]
    ELSE f \notin DOMAIN a /\ f \notin DOMAIN b

\* aVal < bVal: false as soon as one of the two values is undefined.
LessThan(f, a, b) ==
    f \in DOMAIN a /\ f \in DOMAIN b /\ Less(f, a[f], b[f])

\* Mutant of Comparator: only the first entry of the sort object is
\* compared.
Comparator_FirstFieldOnly(a, b, sortEntries) ==
    IF sortEntries = <<>> THEN 0
    ELSE IF StrictEquals(sortEntries[1][1], a, b) THEN 0
    ELSE IF sortEntries[1][2] = "asc"
    THEN (IF LessThan(sortEntries[1][1], a, b) THEN -1 ELSE 1)
    ELSE (IF LessThan(sortEntries[1][1], a, b) THEN 1 ELSE -1)

\* The comparator handed to results.sort, for the entries of the sort
\* object in the order Object.entries lists them.
RECURSIVE Comparator(_, _, _)
Comparator(a, b, sortEntries) ==
    IF sortEntries = <<>> THEN 0
    ELSE IF StrictEquals(sortEntries[1][1], a, b)
    THEN Comparator(a, b, Tail(sortEntries))
    ELSE IF sortEntries[1][2] = "asc"
    THEN (IF LessThan(sortEntries[1][1], a, b) THEN -1 ELSE 1)
    ELSE (IF LessThan(sortEntries[1][1], a, b) THEN 1 ELSE -1)

\* Array.prototype.sort is stable: an element goes behind every element that
\* the comparator does not put after it.
Insert(sorted, e, sortEntries) ==
    LET k == Cardinality({i \in DOMAIN sorted :
                 \A j \in 1..i : Comparator(sorted[j][2], e[2], sortEntries) <= 0})
    IN  SubSeq(sorted, 1, k) \o <<e>> \o SubSeq(sorted, k + 1, Len(sorted))

RECURSIVE SortInto(_, _, _)
SortInto(sorted, rest, sortEntries) ==
    IF rest = <<>> THEN sorted
    ELSE SortInto(Insert(sorted, rest[1], sortEntries), Tail(rest), sortEntries)

Sort(list, sortEntries) == SortInto(<<>>, list, sortEntries)

\* results.slice(0, limit): a negative limit counts from the end.
Slice(list, limit) ==
    IF limit >= 0
    THEN SubSeq(list, 1, IF limit < Len(list) THEN limit ELSE Len(list))
    ELSE SubSeq(list, 1, IF Len(list) + limit > 0 THEN Len(list) + limit ELSE 0)

NoLimit == [present |-> FALSE, n |-> 0]

\* Mutant of query: conditions.some in place of conditions.every.
query_Some(m, conditions, sort, limit) ==
    LET results ==
            SelectSeq(m, LAMBDA e :
                \E i \in DOMAIN conditions : evaluateCondition(e[2], conditions[i]))
        ordered == IF sort # <<>> THEN Sort(results, sort) ELSE results
    IN  IF limit.present THEN Slice(ordered, limit.n) ELSE ordered

\* query(conditions, sort?, limit?): sort is the sequence of the entries of
\* the sort object (empty for undefined and for {}, which sort nothing).
query(m, conditions, sort, limit) ==
    LET results ==
            SelectSeq(m, LAMBDA e :
                \A i \in DOMAIN conditions : evaluateCondition(e[2], conditions[i]))
        ordered == IF sort # <<>> THEN Sort(results, sort) ELSE results
    IN  IF limit.present THEN Slice(ordered, limit.n) ELSE ordered

\* Mutant of clear: saveChanges() before this.data.clear().
clear_SaveFirst(m, st, ok) ==
    LET s == saveChanges(m, st, ok)
    IN  [data |-> <<>>, store |-> s.store, ret |-> Bool(s.ret), writes |-> <<ok>>]

clear(m, st, ok) ==
    LET s == saveChanges(<<>>, st, ok)
    IN  [data |-> <<>>, store |-> s.store, ret |-> Bool(s.ret), writes |-> <<ok>>]

delete(m, st, id, ok) ==
    IF ~Has(m, id)
    THEN [data |-> m, store |-> st, ret |-> RetFalse, writes |-> <<>>]
    ELSE LET m2 == MapDelete(m, id)
             s == saveChanges(m2, st, ok)
         IN  [data |-> m2, store |-> s.store, ret |-> Bool(s.ret), writes |-> <<ok>>]

\* Mutant of create: the this.data.delete(id) of the failure branch dropped.
create_NoRollback(m, st, v, doc, id, ok) ==
    IF ~validate(v, doc)
    THEN [data |-> m, store |-> st, ret |-> Threw, writes |-> <<>>]
    ELSE LET m2 == MapSet(m, id, doc)
             s == saveChanges(m2, st, ok)
         IN  IF ~s.ret
             THEN [data |-> m2, store |-> s.store, ret |-> RetNull, writes |-> <<ok>>]
             ELSE [data |-> m2, store |-> s.store, ret |-> id, writes |-> <<ok>>]

\* Mutant of create: the document is set under id, the identifier returned
\* is drawn again.
create_ReturnsOtherId(m, st, v, doc, id, ok) ==
    IF ~validate(v, doc)
    THEN [data |-> m, store |-> st, ret |-> Threw, writes |-> <<>>]
    ELSE LET m2 == MapSet(m, id, doc)
             s == saveChanges(m2, st, ok)
         IN  IF ~s.ret
             THEN [data |-> MapDelete(m2, id), store |-> s.store, ret |-> RetNull,
                   writes |-> <<ok>>]
             ELSE [data |-> m2, store |-> s.store,
                   ret |-> CHOOSE other \in IdSpace : other # id, writes |-> <<ok>>]

create(m, st, v, doc, id, ok) ==
    IF ~validate(v, doc)
    THEN [data |-> m, store |-> st, ret |-> Threw, writes |-> <<>>]
    ELSE LET m2 == MapSet(m, id, doc)
             s == saveChanges(m2, st, ok)
         IN  IF ~s.ret
             THEN [data |-> MapDelete(m2, id), store |-> s.store, ret |-> RetNull,
                   writes |-> <<ok>>]
             ELSE [data |-> m2, store |-> s.store, ret |-> id, writes |-> <<ok>>]

\* Mutant of Merge: the spread operands swapped, { ...data, ...existingData }.
Merge_ExistingWins(existing, patch) ==
    [f \in DOMAIN existing \cup DOMAIN patch |->
        IF f \in DOMAIN existing THEN existing[f] ELSE patch[f]]

\* { ...existingData, ...data }
Merge(existing, patch) ==
    [f \in DOMAIN existing \cup DOMAIN patch |->
        IF f \in DOMAIN patch THEN patch[f] ELSE existing[f]]

\* Mutant of update: the this.data.set(id, originalData) of the failure
\* branch dropped.
update_NoRestore(m, st, v, id, patch, ok) ==
    IF ~Has(m, id)
    THEN [data |-> m, store |-> st, ret |-> RetFalse, writes |-> <<>>]
    ELSE LET originalData == Get(m, id)
             updatedData == Merge(originalData, patch)
             m2 == MapSet(m, id, updatedData)
             s == saveChanges(m2, st, ok)
         IN  IF ~validate(v, updatedData)
             THEN [data |-> m, store |-> st, ret |-> Threw, writes |-> <<>>]
             ELSE IF ~s.ret
             THEN [data |-> m2, store |-> s.store, ret |-> RetFalse, writes |-> <<ok>>]
             ELSE [data |-> m2, store |-> s.store, ret |-> RetTrue, writes |-> <<ok>>]

\* Mutant of update: the early return for a missing id dropped, the patch is
\* merged into an empty document and stored.
update_Upsert(m, st, v, id, patch, ok) ==
    LET originalData == IF Has(m, id) THEN Get(m, id) ELSE EmptyDoc
        updatedData == Merge(originalData, patch)
        m2 == MapSet(m, id, updatedData)
        s == saveChanges(m2, st, ok)
    IN  IF ~validate(v, updatedData)
        THEN [data |-> m, store |-> st, ret |-> Threw, writes |-> <<>>]
        ELSE IF ~s.ret
        THEN [data |-> m, store |-> s.store, ret |-> RetFalse, writes |-> <<ok>>]
        ELSE [data |-> m2, store |-> s.store, ret |-> RetTrue, writes |-> <<ok>>]

\* Mutant of update: this.data.set(id, updatedData) moved before validate().
update_SetBeforeValidate(m, st, v, id, patch, ok) ==
    IF ~Has(m, id)
    THEN [data |-> m, store |-> st, ret |-> RetFalse, writes |-> <<>>]
    ELSE LET originalData == Get(m, id)
             updatedData == Merge(originalData, patch)
             m2 == MapSet(m, id, updatedData)
             s == saveChanges(m2, st, ok)
         IN  IF ~validate(v, updatedData)
             THEN [data |-> m2, store |-> st, ret |-> Threw, writes |-> <<>>]
             ELSE IF ~s.ret
             THEN [data |-> MapSet(m2, id, originalData), store |-> s.store,
                   ret |-> RetFalse, writes |-> <<ok>>]
             ELSE [data |-> m2, store |-> s.store, ret |-> RetTrue, writes |-> <<ok>>]

update(m, st, v, id, patch, ok) ==
    IF ~Has(m, id)
    THEN [data |-> m, store |-> st, ret |-> RetFalse, writes |-> <<>>]
    ELSE LET originalData == Get(m, id)
             updatedData == Merge(originalData, patch)
             m2 == MapSet(m, id, updatedData)
             s == saveChanges(m2, st, ok)
         IN  IF ~validate(v, updatedData)
             THEN [data |-> m, store |-> st, ret |-> Threw, writes |-> <<>>]
             ELSE IF ~s.ret
             THEN [data |-> MapSet(m2, id, originalData), store |-> s.store,
                   ret |-> RetFalse, writes |-> <<ok>>]
             ELSE [data |-> m2, store |-> s.store, ret |-> RetTrue, writes |-> <<ok>>]

\* Mutant of SetAll: the entries are set from the last to the first.
RECURSIVE SetAll_Backwards(_, _)
SetAll_Backwards(m, entries) ==
    IF entries = <<>> THEN m
    ELSE MapSet(SetAll_Backwards(m, Tail(entries)), entries[1][1], entries[1][2])

\* for (const [id, value] of entries) this.data.set(id, value)
RECURSIVE SetAll(_, _)
SetAll(m, entries) ==
    IF entries = <<>> THEN m
    ELSE SetAll(MapSet(m, entries[1][1], entries[1][2]), Tail(entries))

\* A text that JSON.parse rejects.
CorruptText == <<"[", "{">>

\* Texts handed to import: not JSON, JSON that is not an entry list, the
\* empty list, a list of two entries, and a list naming one identifier twice.
ImportTexts ==
    { CorruptText,
      <<"{", "}">>,
      EmptySnapshot,
      Stringify(<< <<"1b", DocAn3>>, <<"0a", DocB2>> >>),
      Stringify(<< <<"0a", DocAn3>>, <<"0a", DocAn2>> >>) }

\* What JSON.parse makes of each text handed to import.
Parsed == [text \in ImportTexts |-> Parse(text)]

\* JSON.parse(data) in import: the parse of a text of ImportTexts is looked
\* up in Parsed.
ParseImported(text) == IF text \in DOMAIN Parsed THEN Parsed[text] ELSE Parse(text)

\* Mutant of import: this.clear() moved before JSON.parse.
import_ClearsFirst(m, st, v, text, ok1, ok2) ==
    LET entries == ParseImported(text)
        validEntries == SelectSeq(entries.val, LAMBDA e : validate(v, e[2]))
        c == clear(m, st, ok1)
        m2 == SetAll(c.data, validEntries)
        s == saveChanges(m2, c.store, ok2)
    IN  IF ~entries.ok
        THEN [data |-> c.data, store |-> c.store, ret |-> RetFalse, writes |-> <<ok1>>]
        ELSE [data |-> m2, store |-> s.store, ret |-> Bool(s.ret),
              writes |-> <<ok1, ok2>>]

\* Mutant of import: every parsed entry is set, valid or not.
import_NoFilter(m, st, v, text, ok1, ok2) ==
    LET entries == ParseImported(text)
        c == clear(m, st, ok1)
        m2 == SetAll(c.data, entries.val)
        s == saveChanges(m2, c.store, ok2)
    IN  IF ~entries.ok
        THEN [data |-> m, store |-> st, ret |-> RetFalse, writes |-> <<>>]
        ELSE [data |-> m2, store |-> s.store, ret |-> Bool(s.ret),
              writes |-> <<ok1, ok2>>]

\* Mutant of import: this.clear() dropped, the entries are set over the old
\* map.
import_KeepsOld(m, st, v, text, ok1, ok2) ==
    LET entries == ParseImported(text)
        validEntries == SelectSeq(entries.val, LAMBDA e : validate(v, e[2]))
        m2 == SetAll(m, validEntries)
        s == saveChanges(m2, st, ok2)
    IN  IF ~entries.ok
        THEN [data |-> m, store |-> st, ret |-> RetFalse, writes |-> <<>>]
        ELSE [data |-> m2, store |-> s.store, ret |-> Bool(s.ret), writes |-> <<ok2>>]

import(m, st, v, text, ok1, ok2) ==
    LET entries == ParseImported(text)
        validEntries == SelectSeq(entries.val, LAMBDA e : validate(v, e[2]))
        c == clear(m, st, ok1)
        m2 == SetAll(c.data, validEntries)
        s == saveChanges(m2, c.store, ok2)
    IN  IF ~entries.ok
        THEN [data |-> m, store |-> st, ret |-> RetFalse, writes |-> <<>>]
        ELSE [data |-> m2, store |-> s.store, ret |-> Bool(s.ret),
              writes |-> <<ok1, ok2>>]

\* Mutant of initialize: the catch block only logs, without clear() and
\* saveChanges().
initialize_NoRecovery(st, v, readOk, ok1, ok2) ==
    LET entries == Parse(st)
    IN  IF readOk /\ st # <<>> /\ entries.ok
        THEN [data |-> SetAll(<<>>, SelectSeq(entries.val, LAMBDA e : validate(v, e[2]))),
              store |-> st, ret |-> RetVoid, writes |-> <<>>]
        ELSE [data |-> <<>>, store |-> st, ret |-> RetVoid, writes |-> <<>>]

\* Mutant of initialize: every stored entry is set without validate(), as
\* the Map-subclass variant of the class does.
initialize_NoValidate(st, v, readOk, ok1, ok2) ==
    LET entries == Parse(st)
        c == clear(<<>>, st, ok1)
        s == saveChanges(c.data, c.store, ok2)
    IN  IF readOk /\ st = <<>>
        THEN [data |-> <<>>, store |-> st, ret |-> RetVoid, writes |-> <<>>]
        ELSE IF readOk /\ entries.ok
        THEN [data |-> SetAll(<<>>, entries.val), store |-> st, ret |-> RetVoid,
              writes |-> <<>>]
        ELSE [data |-> c.data, store |-> s.store, ret |-> RetVoid,
              writes |-> <<ok1, ok2>>]

\* Mutant of initialize: the recovery in a finally block, so that it runs
\* after a successful load too.
initialize_Finally(st, v, readOk, ok1, ok2) ==
    LET c == clear(<<>>, st, ok1)
        s == saveChanges(c.data, c.store, ok2)
    IN  [data |-> c.data, store |-> s.store, ret |-> RetVoid, writes |-> <<ok1, ok2>>]

\* The constructor's initialize(): readOk is FALSE when getDynamicProperty
\* throws.  An absent (or empty) text loads nothing; a text that is not an
\* entry list makes the catch block run clear() and then saveChanges().
initialize(st, v, readOk, ok1, ok2) ==
    LET entries == Parse(st)
        c == clear(<<>>, st, ok1)
        s == saveChanges(c.data, c.store, ok2)
    IN  IF readOk /\ st = <<>>
        THEN [data |-> <<>>, store |-> st, ret |-> RetVoid, writes |-> <<>>]
        ELSE IF readOk /\ entries.ok
        THEN [data |-> SetAll(<<>>, SelectSeq(entries.val, LAMBDA e : validate(v, e[2]))),
              store |-> st, ret |-> RetVoid, writes |-> <<>>]
        ELSE [data |-> c.data, store |-> s.store, ret |-> RetVoid,
              writes |-> <<ok1, ok2>>]

\* The bounds of collectionName.length.
MinNameLen == 1
MaxNameLen == 16

NameError == "Error: Collection name must be between 1 and 16 characters"

\* Mutant of constructor: >= in place of > in the upper bound test.
constructor_OffByOne(nameLen, st, v, readOk, ok1, ok2) ==
    IF nameLen < MinNameLen \/ nameLen >= MaxNameLen
    THEN [data |-> <<>>, store |-> st, ret |-> NameError, writes |-> <<>>, reads |-> 0]
    ELSE LET r == initialize(st, v, readOk, ok1, ok2)
         IN  [data |-> r.data, store |-> r.store, ret |-> r.ret, writes |-> r.writes,
              reads |-> 1]

\* new Database(name, storage, validators) for a name of nameLen characters:
\* it throws before anything else for a name out of bounds (no instance
\* exists then, data is not meaningful), and runs initialize() otherwise,
\* which calls getDynamicProperty once.
constructor(nameLen, st, v, readOk, ok1, ok2) ==
    IF nameLen < MinNameLen \/ nameLen > MaxNameLen
    THEN [data |-> <<>>, store |-> st, ret |-> NameError, writes |-> <<>>, reads |-> 0]
    ELSE LET r == initialize(st, v, readOk, ok1, ok2)
         IN  [data |-> r.data, store |-> r.store, ret |-> r.ret, writes |-> r.writes,
              reads |-> 1]

(***************************************************************************)
(* Inputs.                                                                 *)
(***************************************************************************)
\* Lengths of the names handed to the constructor.
NameLens == {0, 1, 16, 17}

\* The lengths the model constructs later instances with: every name within
\* bounds names the same property.
ConstructedNameLens == {0, 16, 17}

\* What the dynamic property can hold before the first construction.
InitialStores ==
    { <<>>,
      CorruptText,
      Stringify(<< <<"1b", DocB2>>, <<"0a", DocAn3>> >>) }

(***************************************************************************)
(* State: the instance (data, validators), the host property (store), and  *)
(* the last call: its name, returned value and write outcomes.  persisted  *)
(* records the map that the last setDynamicProperty call that succeeded    *)
(* was given the text of, if there was one; reads counts the              *)
(* getDynamicProperty calls of the last call, and result is what the last  *)
(* call returned when it was a read operation; call is the create that is  *)
(* followed step by step through generateId(), if there is one; variant is *)
(* the instance of src/index.ts that is given the same calls, if any.       *)
(***************************************************************************)
VARIABLES data, store, validators, op, ret, writes, persisted, reads, result, call,
          variant

vars ==
    <<data, store, validators, op, ret, writes, persisted, reads, result, call, variant>>

\* The shapes a read operation returns: a list of entries, one entry or
\* undefined, a number, a text; and the array of outcomes a bulk operation
\* returns.
NoResult ==
    [list |-> <<>>, entry |-> First(<<>>), num |-> 0, text |-> <<>>, outcomes |-> <<>>]

\* No create is in progress.  call is the create that is inside
\* generateId() or has left it: its position, its document, the candidate
\* identifier of the loop, and whether a candidate was drawn again.
NoCall == [pc |-> "idle", doc |-> EmptyDoc, id |-> NoId, redrawn |-> FALSE]

\* No instance of the Map-subclass variant runs beside the class.  variant is
\* the map and the stored text of such an instance when one does.
NoVariant == [data |-> <<>>, store |-> <<>>]

\* The value of ret after a read operation: what it returned is in result.
RetResult == "result"

\* No write has succeeded yet.
NoSnapshot == [some |-> FALSE, map |-> <<>>]

\* The map last written after a call that left r: the last saveChanges() of
\* an operation serializes the map the operation leaves when it succeeds;
\* an earlier one is the save inside clear(), which serializes the empty
\* map; a call without a successful write keeps prev.
LastSaved(r, prev) ==
    IF r.writes # <<>> /\ r.writes[Len(r.writes)] THEN [some |-> TRUE, map |-> r.data]
    ELSE IF \E i \in DOMAIN r.writes : r.writes[i] THEN [some |-> TRUE, map |-> <<>>]
    ELSE prev

\* The call named name leaves the result r of its operation.
Apply(name, r) ==
    /\ op' = name
    /\ data' = r.data
    /\ store' = r.store
    /\ ret' = r.ret
    /\ writes' = r.writes
    /\ persisted' = LastSaved(r, persisted)
    /\ reads' = (IF "reads" \in DOMAIN r THEN r.reads ELSE 0)
    /\ result' = NoResult
    /\ UNCHANGED <<validators, call, variant>>

\* The state after the first construction that returned an instance.
Init ==
    \E st \in InitialStores, v \in ValidatorMaps, n \in NameLens,
       readOk, ok1, ok2 \in BOOLEAN :
        \E r \in {constructor(n, st, v, readOk, ok1, ok2)} :
            /\ r.ret # NameError
            /\ data = r.data
            /\ store = r.store
            /\ ret = r.ret
            /\ writes = r.writes
            /\ persisted = LastSaved(r, NoSnapshot)
            /\ reads = r.reads
            /\ result = NoResult
            /\ call = NoCall
            /\ variant = NoVariant
            /\ op = "constructor"
            /\ validators = v

\* The outcomes of the storage calls of a construction: one suffices for a
\* name out of bounds, for which no storage call is made.
StorageOutcomes(nameLen) ==
    IF nameLen < MinNameLen \/ nameLen > MaxNameLen THEN {FALSE} ELSE BOOLEAN

\* new Database(name, storage, validators) again.  A name within bounds is
\* the name of the property the model follows, and the new instance replaces
\* the old one; a construction that throws leaves the old instance in use.
Construct(nameLen, readOk, ok1, ok2) ==
    \E r \in {constructor(nameLen, store, validators, readOk, ok1, ok2)} :
        IF r.ret = NameError
        THEN Apply("constructor", [r EXCEPT !.data = data])
        ELSE Apply("constructor", r)

\* create(doc): id is the identifier generateId returns (no identifier is
\* generated when validation throws).
Create(doc, id, ok) ==
    /\ Len(data) < MaxSize
    /\ id \in (IF validate(validators, doc) THEN generateId(data) ELSE {NoId})
    /\ \E r \in {create(data, store, validators, doc, id, ok)} : Apply("create", r)

Update(id, patch, ok) ==
    \E r \in {update(data, store, validators, id, patch, ok)} : Apply("update", r)

Delete(id, ok) ==
    \E r \in {delete(data, store, id, ok)} : Apply("delete", r)

Clear(ok) ==
    \E r \in {clear(data, store, ok)} : Apply("clear", r)

Import(text, ok1, ok2) ==
    \E r \in {import(data, store, validators, text, ok1, ok2)} : Apply("import", r)

Next ==
    \/ \E doc \in Docs, id \in IdSpace \cup {NoId}, ok \in BOOLEAN : Create(doc, id, ok)
    \/ \E id \in IdSpace, patch \in Patches, ok \in BOOLEAN : Update(id, patch, ok)
    \/ \E id \in IdSpace, ok \in BOOLEAN : Delete(id, ok)
    \/ \E ok \in BOOLEAN : Clear(ok)
    \/ \E text \in ImportTexts, ok1, ok2 \in BOOLEAN : Import(text, ok1, ok2)
    \/ \E n \in ConstructedNameLens :
          \E readOk, ok1, ok2 \in StorageOutcomes(n) : Construct(n, readOk, ok1, ok2)

Spec == Init /\ [][Next]_vars

(***************************************************************************)
(* The read operations on a loaded collection.  ReadSpec starts from an    *)
(* instance constructed, without validators, over the snapshot of any map  *)
(* of up to three documents, and lets it receive read calls.               *)
(***************************************************************************)
ReadDocs == {DocAn3, DocAn2, DocB2}

\* The maps with pairwise distinct identifiers.
ReadMaps ==
    UNION {{m \in [1..n -> IdSpace \X ReadDocs] :
               \A i, j \in 1..n : i # j => m[i][1] # m[j][1]} :
           n \in 0..Cardinality(IdSpace)}

NameCondVals == {<<"A", "n">>, <<"b">>, <<"a">>, <<"N">>}
AgeCondVals == {2, 3}

Condition(f, o, v) == [present |-> TRUE, field |-> f, operator |-> o, value |-> v]

\* Every FilterCondition over the two fields and their values.
Conditions ==
    {Condition("name", o, v) : o \in Operators, v \in NameCondVals}
        \cup {Condition("age", o, v) : o \in Operators, v \in AgeCondVals}

\* The conditions that are combined in lists of two.
PairConditions ==
    {Condition("name", "==", <<"A", "n">>), Condition("name", "contains", <<"a">>),
     Condition("age", ">=", 3), Condition("age", "!=", 3), Condition("age", "<", 3)}

ConditionLists ==
    {<<>>} \cup {<<c>> : c \in Conditions}
           \cup {<<c1, c2>> : c1 \in PairConditions, c2 \in PairConditions}

Sorts ==
    {<<>>, << <<"age", "asc">> >>, << <<"age", "desc">> >>,
     << <<"name", "asc">> >>, << <<"name", "desc">> >>,
     << <<"age", "desc">>, <<"name", "asc">> >>,
     << <<"name", "asc">>, <<"age", "desc">> >>,
     << <<"name", "desc">>, <<"age", "asc">> >>}

Limits == {NoLimit} \cup {[present |-> TRUE, n |-> k] : k \in {-1, 0, 1, 2, 5}}

Predicates == {NoPredicate} \cup {[present |-> TRUE, accepts |-> a] : a \in SUBSET ReadDocs}

Terms == {<<>>, <<"a">>, <<"A", "N">>, <<"2">>, <<"B">>}

FieldLists ==
    {NoFields} \cup {[present |-> TRUE, names |-> fs] : fs \in SUBSET {"name", "age"}}

\* The calls the read actions make: a part of the calls above.
CalledConditionLists ==
    {<<>>, <<Condition("age", ">=", 3)>>, <<Condition("name", "startsWith", <<"a">>)>>,
     <<Condition("name", "==", <<"A", "n">>), Condition("age", "<", 3)>>}
CalledSorts ==
    {<<>>, << <<"age", "asc">> >>, << <<"age", "desc">>, <<"name", "asc">> >>}
CalledLimits == {NoLimit, [present |-> TRUE, n |-> 1]}
CalledConditions ==
    {NoCondition, Condition("age", ">=", 3), Condition("name", "contains", <<"N">>)}

\* A read call named name that returned res: no statement of a read
\* operation assigns to this.data or calls the storage object.
Read(name, res) ==
    /\ op' = name
    /\ ret' = RetResult
    /\ result' = res
    /\ writes' = <<>>
    /\ reads' = 0
    /\ UNCHANGED <<data, store, validators, persisted, call, variant>>

FindById(id) == Read("findById", [NoResult EXCEPT !.entry = findById(data, id)])

FindOne(predicate) == Read("findOne", [NoResult EXCEPT !.entry = findOne(data, predicate)])

FindMany(predicate) == Read("findMany", [NoResult EXCEPT !.list = findMany(data, predicate)])

FindLike(term, fields) ==
    Read("findLike", [NoResult EXCEPT !.list = findLike(data, term, fields)])

\* Mutant of Query: the entries of the map itself are sorted.
Query_SortsCollection(conditions, sort, limit) ==
    /\ op' = "query"
    /\ ret' = RetResult
    /\ result' = [NoResult EXCEPT !.list = query(data, conditions, sort, limit)]
    /\ writes' = <<>>
    /\ reads' = 0
    /\ data' = Sort(data, sort)
    /\ UNCHANGED <<store, validators, persisted, call, variant>>

Query(conditions, sort, limit) ==
    Read("query", [NoResult EXCEPT !.list = query(data, conditions, sort, limit)])

Count(condition) == Read("count", [NoResult EXCEPT !.num = count(data, condition)])

Size == Read("size", [NoResult EXCEPT !.num = size(data)])

Export == Read("export", [NoResult EXCEPT !.text = export(data)])

ReadOps ==
    {"findById", "findOne", "findMany", "findLike", "query", "count", "size", "export"}

ReadInit ==
    \E m \in ReadMaps :
        \E r \in {constructor(MinNameLen, Stringify(m), NoValidators, TRUE, TRUE, TRUE)} :
            /\ data = r.data
            /\ store = r.store
            /\ ret = r.ret
            /\ writes = r.writes
            /\ persisted = LastSaved(r, NoSnapshot)
            /\ reads = r.reads
            /\ result = NoResult
            /\ call = NoCall
            /\ variant = NoVariant
            /\ op = "constructor"
            /\ validators = NoValidators

ReadNext ==
    \/ \E id \in IdSpace : FindById(id)
    \/ \E predicate \in Predicates \ {NoPredicate} : FindOne(predicate)
    \/ \E predicate \in Predicates : FindMany(predicate)
    \/ \E term \in Terms, fields \in FieldLists : FindLike(term, fields)
    \/ \E conditions \in CalledConditionLists, sort \in CalledSorts,
          limit \in CalledLimits : Query(conditions, sort, limit)
    \/ \E condition \in CalledConditions : Count(condition)
    \/ Size
    \/ Export

ReadSpec == ReadInit /\ [][ReadNext]_vars

(***************************************************************************)
(* The bulk operations: items.map(item => this.create(item)) and the like. *)
(* map calls the single-item operation on each item in order and collects  *)
(* what it returns; when it throws, map stops and the error leaves the     *)
(* bulk call, and no array is returned.  oks[k] is the outcome of the      *)
(* write of item k, if item k writes.                                      *)
(***************************************************************************)
MaxItems == 2

\* A bulk call before its first item.
BulkStart(m, st, saved) ==
    [data |-> m, store |-> st, persisted |-> saved, outcomes |-> <<>>,
     writes |-> <<>>, ret |-> RetResult]

\* Mutant of BulkStep: null and false are left out of the array.
BulkStep_SkipsFailures(acc, r) ==
    IF r.ret = Threw
    THEN [acc EXCEPT !.data = r.data, !.store = r.store, !.outcomes = <<>>, !.ret = Threw]
    ELSE [data |-> r.data, store |-> r.store,
          persisted |-> LastSaved(r, acc.persisted),
          outcomes |-> IF r.ret \in {RetNull, RetFalse} THEN acc.outcomes
                       ELSE Append(acc.outcomes, r.ret),
          writes |-> acc.writes \o r.writes, ret |-> RetResult]

\* Mutant of BulkStep: an item that fails takes the items before it back,
\* leaving the collection empty in the map and in the stored text.
BulkStep_UndoesEarlier(acc, r) ==
    IF r.ret = Threw
    THEN [acc EXCEPT !.data = <<>>, !.store = Stringify(<<>>), !.outcomes = <<>>,
                     !.ret = Threw]
    ELSE IF r.ret \in {RetNull, RetFalse}
    THEN [data |-> <<>>, store |-> Stringify(<<>>), persisted |-> <<>>,
          outcomes |-> Append(acc.outcomes, r.ret),
          writes |-> acc.writes \o r.writes, ret |-> RetResult]
    ELSE [data |-> r.data, store |-> r.store,
          persisted |-> LastSaved(r, acc.persisted),
          outcomes |-> Append(acc.outcomes, r.ret),
          writes |-> acc.writes \o r.writes, ret |-> RetResult]

\* One more item: r is what the single-item operation left and returned.
BulkStep(acc, r) ==
    IF r.ret = Threw
    THEN [acc EXCEPT !.data = r.data, !.store = r.store, !.outcomes = <<>>, !.ret = Threw]
    ELSE [data |-> r.data, store |-> r.store,
          persisted |-> LastSaved(r, acc.persisted),
          outcomes |-> Append(acc.outcomes, r.ret),
          writes |-> acc.writes \o r.writes, ret |-> RetResult]

\* createMany: the results for every identifier the creates can draw.
RECURSIVE createManyFrom(_, _, _, _)
createManyFrom(acc, v, items, oks) ==
    IF items = <<>> \/ acc.ret = Threw THEN {acc}
    ELSE UNION {createManyFrom(
                    BulkStep(acc, create(acc.data, acc.store, v, items[1], id, oks[1])),
                    v, Tail(items), Tail(oks)) :
                id \in (IF validate(v, items[1]) THEN generateId(acc.data) ELSE {NoId})}

createMany(m, st, saved, v, items, oks) ==
    createManyFrom(BulkStart(m, st, saved), v, items, oks)

RECURSIVE updateManyFrom(_, _, _, _)
updateManyFrom(acc, v, updates, oks) ==
    IF updates = <<>> \/ acc.ret = Threw THEN acc
    ELSE updateManyFrom(
             BulkStep(acc, update(acc.data, acc.store, v, updates[1].id, updates[1].data,
                                  oks[1])),
             v, Tail(updates), Tail(oks))

updateMany(m, st, saved, v, updates, oks) ==
    updateManyFrom(BulkStart(m, st, saved), v, updates, oks)

RECURSIVE deleteManyFrom(_, _, _)
deleteManyFrom(acc, ids, oks) ==
    IF ids = <<>> THEN acc
    ELSE deleteManyFrom(BulkStep(acc, delete(acc.data, acc.store, ids[1], oks[1])),
                        Tail(ids), Tail(oks))

deleteMany(m, st, saved, ids, oks) == deleteManyFrom(BulkStart(m, st, saved), ids, oks)

\* The arguments of the bulk calls: lists of up to MaxItems items, and the
\* outcomes of their writes.
ListsOf(S) == UNION {[1..n -> S] : n \in 0..MaxItems}

ItemLists == ListsOf(Docs)
UpdateLists == ListsOf({[id |-> "0a", data |-> [age |-> 2]], [id |-> "1b", data |-> DocAn3]})
IdLists == ListsOf({"0a", "2c"})
OutcomeLists == [1..MaxItems -> BOOLEAN]

\* The calls the bulk actions make: a part of the calls above.
CalledItemLists == {<<>>, <<DocAn3>>, <<DocB2, DocAn3>>, <<DocAn3, DocB2>>}
CalledUpdateLists ==
    {<<[id |-> "0a", data |-> [age |-> 2]]>>,
     <<[id |-> "1b", data |-> DocAn3], [id |-> "0a", data |-> [age |-> 2]]>>,
     <<[id |-> "0a", data |-> [age |-> 2]], [id |-> "1b", data |-> DocAn3]>>}
CalledIdLists == {<<"0a">>, <<"2c", "0a">>, <<"0a", "0a">>}
CalledOutcomeLists == {<<TRUE, TRUE>>, <<FALSE, TRUE>>, <<TRUE, FALSE>>}

\* The bulk call named name leaves r; the array is returned unless an item
\* threw.
Bulk(name, r) ==
    /\ op' = name
    /\ data' = r.data
    /\ store' = r.store
    /\ ret' = r.ret
    /\ writes' = r.writes
    /\ persisted' = r.persisted
    /\ reads' = 0
    /\ result' = [NoResult EXCEPT !.outcomes = r.outcomes]
    /\ UNCHANGED <<validators, call, variant>>

CreateMany(items, oks) ==
    /\ Len(data) + Len(items) <= MaxSize
    /\ \E r \in createMany(data, store, persisted, validators, items, oks) :
           Bulk("createMany", r)

UpdateMany(updates, oks) ==
    \E r \in {updateMany(data, store, persisted, validators, updates, oks)} :
        Bulk("updateMany", r)

DeleteMany(ids, oks) ==
    \E r \in {deleteMany(data, store, persisted, ids, oks)} : Bulk("deleteMany", r)

BulkNext ==
    \/ \E items \in CalledItemLists, oks \in CalledOutcomeLists : CreateMany(items, oks)
    \/ \E updates \in CalledUpdateLists, oks \in CalledOutcomeLists :
          UpdateMany(updates, oks)
    \/ \E ids \in CalledIdLists, oks \in CalledOutcomeLists : DeleteMany(ids, oks)

BulkSpec == Init /\ [][BulkNext]_vars

(***************************************************************************)
(* Properties of the single-item mutators.  A property of a call is stated *)
(* in every reachable state, for every call the instance can receive in    *)
(* that state: the variables are the state the call starts in, r is what   *)
(* the call leaves and returns.  The witnesses are states a call has left. *)
(***************************************************************************)

\* The stored text names id as the identifier of one of its entries.
InSnapshot(st, id) == Parse(st).ok /\ id \in Keys(Parse(st).val)

\* Some registered predicate rejects the value doc has for its field.
Rejected(doc) ==
    /\ validators.present
    /\ \E key \in DOMAIN validators.preds :
           IF key \in DOMAIN doc
           THEN doc[key] \notin validators.preds[key].vals
           ELSE ~validators.preds[key].undef

C2_UpdateRollsBack ==
    \A id \in Keys(data), patch \in Patches :
        LET old == Get(data, id)
            merged == [f \in DOMAIN old \cup DOMAIN patch |->
                          IF f \in DOMAIN patch THEN patch[f] ELSE old[f]]
            r == update(data, store, validators, id, patch, FALSE)
        IN  ~Rejected(merged) =>
                /\ r.ret = RetFalse
                /\ findById(r.data, id) = findById(data, id)
                /\ Len(r.data) = Len(data)
                /\ \A i \in DOMAIN data : data[i][1] # id => r.data[i] = data[i]

C2_Witness ==
    op = "update" /\ ret = RetFalse /\ writes = <<FALSE>> /\ Len(data) = 2

\* C3: a delete of a present id whose write fails returns false, and
\* afterwards the in-memory map and the persisted snapshot agree on whether
\* id is present.
C3_DeleteFailureAgrees ==
    \A id \in Keys(data) :
        LET r == delete(data, store, id, FALSE)
        IN  r.ret = RetFalse /\ (Has(r.data, id) <=> InSnapshot(r.store, id))

C5_UpdateInvalidMerged ==
    \A id \in Keys(data), patch \in Patches, ok \in BOOLEAN :
        LET old == Get(data, id)
            merged == [f \in DOMAIN old \cup DOMAIN patch |->
                          IF f \in DOMAIN patch THEN patch[f] ELSE old[f]]
            r == update(data, store, validators, id, patch, ok)
        IN  Rejected(merged) =>
                (r.ret = Threw /\ r.data = data /\ r.store = store /\ r.writes = <<>>)

C5_Witness ==
    op = "update" /\ ret = Threw /\ writes = <<>> /\ data # <<>>

\* C6: a create of a document rejected by a registered predicate throws and
\* leaves the in-memory map and the stored text unchanged, whatever
\* identifier a generator would return; a create of any other document does
\* not throw, and with no validator map no create throws.
C6_CreateInvalid ==
    \A doc \in Docs, id \in IdSpace \cup {NoId}, ok \in BOOLEAN :
        LET r == create(data, store, validators, doc, id, ok)
        IN  /\ Rejected(doc) =>
                (r.ret = Threw /\ r.data = data /\ r.store = store /\ r.writes = <<>>)
            /\ ~Rejected(doc) => r.ret # Threw
            /\ ~validators.present => r.ret # Threw

C6_Witness ==
    op = "create" /\ ret = Threw /\ writes = <<>> /\ validators.present

\* C7: the identifiers of the live documents are pairwise distinct, and a
\* successful create returns an identifier that was not a key when it was
\* called: it adds one entry and replaces no document.
C7_IdentifiersUnique ==
    /\ Cardinality(Keys(data)) = Len(data)
    /\ \A doc \in Docs, id \in generateId(data), ok \in BOOLEAN :
           LET r == create(data, store, validators, doc, id, ok)
           IN  r.ret \in IdSpace =>
                   /\ ~Has(data, r.ret)
                   /\ Len(r.data) = Len(data) + 1
                   /\ \A i \in DOMAIN data : r.data[i] = data[i]

C7_Witness ==
    op = "create" /\ ret \in IdSpace /\ Len(data) = 2

\* C8: a successful update returns true and stores for id the previous
\* document with every field of the patch overriding it and every other
\* field retained; no other entry changes and no entry moves.
C8_UpdateMerges ==
    \A id \in IdSpace, patch \in Patches, ok \in BOOLEAN :
        LET r == update(data, store, validators, id, patch, ok)
        IN  r.ret = RetTrue =>
                /\ Has(data, id) /\ Has(r.data, id)
                /\ DOMAIN Get(r.data, id) = DOMAIN Get(data, id) \cup DOMAIN patch
                /\ \A f \in DOMAIN patch : Get(r.data, id)[f] = patch[f]
                /\ \A f \in DOMAIN Get(data, id) \ DOMAIN patch :
                       Get(r.data, id)[f] = Get(data, id)[f]
                /\ Len(r.data) = Len(data)
                /\ \A i \in DOMAIN data :
                       /\ r.data[i][1] = data[i][1]
                       /\ data[i][1] # id => r.data[i] = data[i]

C8_Witness ==
    op = "update" /\ ret = RetTrue /\ writes = <<TRUE>> /\ Len(data) = 2

C10_ClearRollsBack ==
    LET r == clear(data, store, FALSE)
    IN  r.ret = RetFalse /\ r.data = data

(***************************************************************************)
(* Import, construction and restart.                                       *)
(***************************************************************************)

\* C11: an import that attempted a write and reports failure returns false
\* and leaves the in-memory map and the stored text as they were before the
\* call, for every pattern of write outcomes.
C11_ImportRollsBack ==
    \A text \in ImportTexts, ok1, ok2 \in BOOLEAN :
        LET r == import(data, store, validators, text, ok1, ok2)
        IN  (r.writes # <<>> /\ r.ret # RetTrue) =>
                (r.ret = RetFalse /\ r.data = data /\ r.store = store)

\* C12 as stated: constructing over an absent or unparsable stored text
\* leaves the map empty and the store holding the empty snapshot.
C12_ConstructPersistsEmpty ==
    \A ok1, ok2 \in BOOLEAN :
        (store = <<>> \/ store = CorruptText) =>
            LET r == initialize(store, validators, TRUE, ok1, ok2)
            IN  r.data = <<>> /\ r.store = EmptySnapshot

\* C12 amended: constructing over an absent stored text leaves the map empty
\* and attempts no write, so the text stays absent; constructing over an
\* unparsable text, or with a failing read, leaves the map empty and
\* attempts two writes of the empty snapshot, which the store holds
\* afterwards when one of them succeeded and which it does not hold when
\* both failed.
C12_ConstructRecovers ==
    \A readOk, ok1, ok2 \in BOOLEAN :
        /\ (readOk /\ store = <<>>) =>
               LET r == initialize(store, validators, readOk, ok1, ok2)
               IN  r.data = <<>> /\ r.writes = <<>> /\ r.store = <<>>
        /\ (~readOk \/ store = CorruptText) =>
               LET r == initialize(store, validators, readOk, ok1, ok2)
               IN  /\ r.data = <<>>
                   /\ r.writes = <<ok1, ok2>>
                   /\ r.store = (IF ok1 \/ ok2 THEN EmptySnapshot ELSE store)

C12_Witness ==
    /\ op = "constructor" /\ writes = <<FALSE, TRUE>>
    /\ data = <<>> /\ store = EmptySnapshot

\* C13: constructing over a stored snapshot (a parsable entry list with
\* distinct identifiers) does not fail, attempts no write (so that no write
\* outcome matters), and leaves in the map exactly the stored entries whose
\* document no predicate rejects, in stored order: every such entry is
\* kept, every other entry is dropped.
C13_ConstructLoadsValid ==
    LET snapshot == Parse(store)
        stored == snapshot.val
        r == initialize(store, validators, TRUE, FALSE, FALSE)
    IN  (store # <<>> /\ snapshot.ok) =>
            /\ r.ret = RetVoid /\ r.writes = <<>> /\ r.store = store
            /\ r.data = SelectSeq(stored, LAMBDA e : ~Rejected(e[2]))
            /\ \A i \in DOMAIN stored :
                   ~Rejected(stored[i][2]) =>
                       /\ Has(r.data, stored[i][1])
                       /\ Get(r.data, stored[i][1]) = stored[i][2]

\* A construction that kept the second stored entry and dropped the first.
C13_Witness ==
    /\ op = "constructor" /\ writes = <<>> /\ validators.present
    /\ Parse(store).ok /\ Len(Parse(store).val) = 2
    /\ data = <<Parse(store).val[2]>>

\* C14: once a write has succeeded, whatever calls and write failures
\* followed, a collection constructed over the same property with the same
\* validators (and a working read) holds exactly the map of the last write
\* that succeeded, entries and order; it attempts no write.  The in-memory
\* map of the instance that is dropped plays no part.
C14_RestartLoadsPersisted ==
    persisted.some =>
        LET r == initialize(store, validators, TRUE, FALSE, FALSE)
        IN  r.data = persisted.map /\ r.store = store /\ r.writes = <<>>

\* A restart that loaded two documents written by an earlier instance.
C14_Witness ==
    /\ op = "constructor" /\ writes = <<>> /\ persisted.some
    /\ Len(data) = 2 /\ data = persisted.map

\* C15: a construction throws exactly when the name has fewer than 1 or
\* more than 16 characters, whether the storage calls work or throw, and a
\* construction that throws calls neither getDynamicProperty nor
\* setDynamicProperty.
C15_NameLength ==
    \A n \in NameLens, ok \in BOOLEAN :
        LET r == constructor(n, store, validators, ok, ok, ok)
        IN  /\ r.ret = NameError <=> (n < 1 \/ n > 16)
            /\ r.ret # NameError => r.ret = RetVoid
            /\ r.ret = NameError =>
                   (r.reads = 0 /\ r.writes = <<>> /\ r.store = store)

C15_Witness ==
    op = "constructor" /\ ret = NameError /\ writes = <<>> /\ store = CorruptText

\* C17: a create that returns an identifier leaves findById(id) returning
\* that identifier with the created document, and findById(id) of a present
\* id keeps its value over every later call that does not update or delete
\* id, clear the collection or replace it by an import: a create, an update
\* or delete of another id, an update of id that does not return true, an
\* import that stops at its text.
C17_CreateThenFindById ==
    /\ \A doc \in Docs, id \in generateId(data), ok \in BOOLEAN :
           LET r == create(data, store, validators, doc, id, ok)
           IN  r.ret \in IdSpace =>
                   findById(r.data, r.ret) = [found |-> TRUE, id |-> r.ret, data |-> doc]
    /\ \A doc \in Docs, id2 \in generateId(data), ok \in BOOLEAN :
           LET r == create(data, store, validators, doc, id2, ok)
           IN  \A id \in Keys(data) : findById(r.data, id) = findById(data, id)
    /\ \A id2 \in IdSpace, patch \in Patches, ok \in BOOLEAN :
           LET r == update(data, store, validators, id2, patch, ok)
           IN  \A id \in Keys(data) :
                   (id2 # id \/ r.ret # RetTrue) =>
                       findById(r.data, id) = findById(data, id)
    /\ \A id2 \in IdSpace, ok \in BOOLEAN :
           LET r == delete(data, store, id2, ok)
           IN  \A id \in Keys(data) \ {id2} : findById(r.data, id) = findById(data, id)
    /\ \A text \in ImportTexts :
           LET r == import(data, store, validators, text, FALSE, FALSE)
           IN  r.writes = <<>> =>
                   \A id \in Keys(data) : findById(r.data, id) = findById(data, id)

\* A create that returned the identifier of the second document of the map.
C17_Witness ==
    /\ op = "create" /\ ret \in IdSpace /\ Len(data) = 2
    /\ findById(data, ret).found /\ data[2] = <<ret, findById(data, ret).data>>

(***************************************************************************)
(* The read operations.                                                    *)
(***************************************************************************)

\* C16: a read operation (findById, findOne, findMany, findLike, query,
\* count, size, export) calls neither getDynamicProperty nor
\* setDynamicProperty and leaves the in-memory map, entries and order, and
\* the stored text as they were; a sorted query does not reorder the map.
C16_ReadsChangeNothing ==
    [][op' \in ReadOps =>
          /\ data' = data /\ store' = store /\ persisted' = persisted
          /\ reads' = 0 /\ writes' = <<>>]_vars

\* A query sorted by descending age that returned the two documents of the
\* map in the opposite order.
C16_Witness ==
    /\ op = "query" /\ Len(data) = 2 /\ Len(result.list) = 2
    /\ result.list[1] = data[2] /\ result.list[2] = data[1]

\* Text a comes before text b in lexicographic order: at the first position
\* where they differ a ends or has the smaller character.
Before(a, b) ==
    \E k \in 1..Len(b) :
        /\ \A i \in 1..(k - 1) : i <= Len(a) /\ a[i] = b[i]
        /\ (k > Len(a) \/ (k <= Len(a) /\ CharCode(a[k]) < CharCode(b[k])))

\* x is below y in the natural order of the values of field f.
Below(f, x, y) == IF f = "age" THEN x < y ELSE Before(x, y)

\* The lower-cased string representations of the value of doc and of the
\* condition value.
DocText(doc, c) == ToLowerCase(StringOf(c.field, doc[c.field]))
ValueText(c) == ToLowerCase(StringOf(c.field, c.value))

\* Document doc satisfies condition c: equality, the natural order of the
\* field's type, and case-insensitive substring tests on the string
\* representations.
Satisfies(doc, c) ==
    CASE c.operator = "==" -> doc[c.field] = c.value
      [] c.operator = "!=" -> doc[c.field] # c.value
      [] c.operator = ">" -> Below(c.field, c.value, doc[c.field])
      [] c.operator = "<" -> Below(c.field, doc[c.field], c.value)
      [] c.operator = ">=" ->
             doc[c.field] = c.value \/ Below(c.field, c.value, doc[c.field])
      [] c.operator = "<=" ->
             doc[c.field] = c.value \/ Below(c.field, doc[c.field], c.value)
      [] c.operator = "contains" ->
             \E i \in 1..(Len(DocText(doc, c)) + 1), j \in 0..Len(DocText(doc, c)) :
                 SubSeq(DocText(doc, c), i, j) = ValueText(c)
      [] c.operator = "startsWith" ->
             \E j \in 0..Len(DocText(doc, c)) : SubSeq(DocText(doc, c), 1, j) = ValueText(c)
      [] c.operator = "endsWith" ->
             \E i \in 1..(Len(DocText(doc, c)) + 1) :
                 SubSeq(DocText(doc, c), i, Len(DocText(doc, c))) = ValueText(c)

\* The predicate function 'document satisfies c'.
SatisfiesPredicate(c) ==
    [present |-> TRUE, accepts |-> {d \in ReadDocs : Satisfies(d, c)}]

\* C18: count() equals size and the length of findMany(() => true), and for
\* every condition c, count(c) equals the number of documents that
\* findMany returns for the predicate 'the document satisfies c' and that
\* query([c]) returns.
C18_CountAgrees ==
    /\ count(data, NoCondition) = size(data)
    /\ count(data, NoCondition)
           = Len(findMany(data, [present |-> TRUE, accepts |-> ReadDocs]))
    /\ \A c \in Conditions :
           /\ count(data, c) = Len(findMany(data, SatisfiesPredicate(c)))
           /\ count(data, c) = Len(query(data, <<c>>, <<>>, NoLimit))

\* A count with a condition that one of three documents satisfies.
C18_Witness ==
    op = "count" /\ result.num = 1 /\ Len(data) = 3

\* C19: query(conditions) without sort and limit returns exactly the entries
\* of the map whose document satisfies every condition of the list, each
\* once, in the order of the map; for the empty list it returns every entry.
C19_QueryFilters ==
    \A conditions \in ConditionLists :
        LET res == query(data, conditions, <<>>, NoLimit)
        IN  /\ \A i \in DOMAIN res : res[i] = data[IndexOf(data, res[i][1])]
            /\ \A i, j \in DOMAIN res :
                   i < j => IndexOf(data, res[i][1]) < IndexOf(data, res[j][1])
            /\ \A k \in DOMAIN data :
                   (\E i \in DOMAIN res : res[i] = data[k])
                       <=> \A n \in DOMAIN conditions : Satisfies(data[k][2], conditions[n])
            /\ conditions = <<>> => res = data

\* A query that returned the first and the third of three documents.
C19_Witness ==
    /\ op = "query" /\ Len(data) = 3
    /\ result.list = <<data[1], data[3]>>

\* The position in sort of the first field on which documents a and b
\* differ, 0 when they agree on every field of sort.
FirstDifference(a, b, sort) ==
    IF \A k \in DOMAIN sort : a[sort[k][1]] = b[sort[k][1]] THEN 0
    ELSE CHOOSE k \in DOMAIN sort :
             /\ a[sort[k][1]] # b[sort[k][1]]
             /\ \A n \in 1..(k - 1) : a[sort[n][1]] = b[sort[n][1]]

\* C20: a query with a sort returns the entries the same query returns
\* without one, and of any two of them the one listed first has the lower
\* value (asc) or the higher value (desc) on the first sort field on which
\* they differ, or, when they agree on every sort field, is the earlier one
\* in the map.
C20_QuerySorts ==
    \A conditions \in CalledConditionLists \cup {<<c>> : c \in PairConditions},
       sort \in Sorts :
        LET res == query(data, conditions, sort, NoLimit)
            matching == query(data, conditions, <<>>, NoLimit)
        IN  /\ Len(res) = Len(matching)
            /\ {res[i] : i \in DOMAIN res} = {matching[i] : i \in DOMAIN matching}
            /\ \A i, j \in DOMAIN res :
                   i < j =>
                       LET a == res[i][2]
                           b == res[j][2]
                           k == FirstDifference(a, b, sort)
                       IN  IF k = 0
                           THEN IndexOf(data, res[i][1]) < IndexOf(data, res[j][1])
                           ELSE IF sort[k][2] = "asc"
                           THEN Below(sort[k][1], a[sort[k][1]], b[sort[k][1]])
                           ELSE Below(sort[k][1], b[sort[k][1]], a[sort[k][1]])

\* A query sorted by descending age and then ascending name that moved the
\* oldest document from the end to the front and kept the other two, of
\* the same age, behind it.
C20_Witness ==
    /\ op = "query" /\ Len(data) = 3
    /\ result.list = <<data[3], data[1], data[2]>>
    /\ data[1][2].age = data[2][2].age
    /\ data[3][2].age > data[1][2].age

\* C21: query(conditions, sort, limit) returns the first limit entries of
\* what query(conditions, sort) returns: all of them when limit exceeds
\* their number, none when limit is 0 or below.
C21_QueryLimit ==
    \A conditions \in CalledConditionLists, sort \in CalledSorts,
       limit \in Limits \ {NoLimit} :
        LET res == query(data, conditions, sort, limit)
            all == query(data, conditions, sort, NoLimit)
            n == IF limit.n <= 0 THEN 0
                 ELSE IF limit.n < Len(all) THEN limit.n ELSE Len(all)
        IN  res = SubSeq(all, 1, n)

\* Documents handed to the comparator: the complete ones, one without age
\* and one without name.
ComparedDocs == ReadDocs \cup {[name |-> <<"A", "n">>], [age |-> 3]}

\* C22: for any two documents a and b and any sort, the comparator's
\* verdicts on (a, b) and on (b, a) are opposite or both 'equal', also when
\* one of the two lacks a sort field.
C22_ComparatorAntisymmetric ==
    \A a \in {data[i][2] : i \in DOMAIN data} \cup ComparedDocs, b \in ComparedDocs,
       sort \in Sorts :
        Comparator(a, b, sort) = 0 - Comparator(b, a, sort)

ContainsIgnoringCase(doc, f, term) ==
    \E i \in 1..(Len(StringOf(f, doc[f])) + 1) :
        /\ i + Len(term) - 1 <= Len(StringOf(f, doc[f]))
        /\ \A k \in 1..Len(term) :
               LowerChar(StringOf(f, doc[f])[i + k - 1]) = LowerChar(term[k])

\* C24: findLike(term, fields) returns, in the order of the map, exactly
\* the entries whose document has a searched field whose string
\* representation contains term ignoring case; the searched fields are the
\* listed ones, and every field of the document when fields is left out.
C24_FindLike ==
    \A term \in Terms, fields \in FieldLists :
        LET res == findLike(data, term, fields)
            searched == IF fields.present THEN fields.names
                        ELSE {Fields[n] : n \in DOMAIN Fields}
        IN  /\ \A i \in DOMAIN res : res[i] = data[IndexOf(data, res[i][1])]
            /\ \A i, j \in DOMAIN res :
                   i < j => IndexOf(data, res[i][1]) < IndexOf(data, res[j][1])
            /\ \A k \in DOMAIN data :
                   (\E i \in DOMAIN res : res[i] = data[k])
                       <=> \E f \in searched : ContainsIgnoringCase(data[k][2], f, term)

\* A findLike that returned the two documents named An of a map whose
\* second document is named b.
C24_Witness ==
    /\ op = "findLike" /\ Len(data) = 3
    /\ data[2][2].name = <<"b">>
    /\ result.list = <<data[1], data[3]>>

(***************************************************************************)
(* The bulk operations.                                                    *)
(***************************************************************************)

\* The bulk call that left r ran one more item than the bulk call that left
\* rp: r1 is what the single-item operation left for that item when started
\* where rp ended.  When rp ended with the error of an item, the item did
\* not run.
Extends(r, rp, r1) ==
    IF rp.ret = Threw THEN r = rp
    ELSE /\ r.data = r1.data /\ r.store = r1.store
         /\ r.writes = rp.writes \o r1.writes
         /\ IF r1.ret = Threw THEN r.ret = Threw
            ELSE r.ret = RetResult /\ r.outcomes = Append(rp.outcomes, r1.ret)

\* The list without its last element.
Front(list) == SubSeq(list, 1, Len(list) - 1)

\* The identifiers create(doc) can be called with on map m.
Drawn(m, doc) == IF validate(validators, doc) THEN generateId(m) ELSE {NoId}

FailedAt(r, n) ==
    \/ r.ret = Threw
    \/ r.ret = RetResult /\ Len(r.outcomes) >= n /\ r.outcomes[n] \in {RetNull, RetFalse}

\* C34: no bulk call undoes an earlier item.  When the last item of a list
\* fails, the stored text is the one the items before it left, and so is
\* the map (for deleteMany, but for the entry of the failing identifier,
\* which a delete whose save failed has removed from the map): the call on
\* the list ends where the call on the list without its last item ended.
\* Stated for the last item of every list, hence for every position k.
C34_BulkKeepsEarlierItems ==
    \A oks \in OutcomeLists :
        /\ \A items \in ItemLists \ {<<>>} :
               Len(data) + Len(items) <= MaxSize =>
                   LET before == createMany(data, store, persisted, validators,
                                            Front(items), oks)
                   IN  \A r \in createMany(data, store, persisted, validators, items, oks) :
                           FailedAt(r, Len(items)) =>
                               \E rp \in before :
                                   /\ r.data = rp.data /\ r.store = rp.store
                                   /\ r.persisted = rp.persisted
        /\ \A updates \in UpdateLists \ {<<>>} :
               LET r == updateMany(data, store, persisted, validators, updates, oks)
                   rp == updateMany(data, store, persisted, validators, Front(updates), oks)
               IN  FailedAt(r, Len(updates)) =>
                       /\ r.data = rp.data /\ r.store = rp.store
                       /\ r.persisted = rp.persisted
        /\ \A ids \in IdLists \ {<<>>} :
               LET r == deleteMany(data, store, persisted, ids, oks)
                   rp == deleteMany(data, store, persisted, Front(ids), oks)
               IN  FailedAt(r, Len(ids)) =>
                       /\ r.data = SelectSeq(rp.data, LAMBDA e : e[1] # ids[Len(ids)])
                       /\ r.store = rp.store
                       /\ r.persisted = rp.persisted

\* A createMany of two documents whose first create was saved and whose
\* second create lost its write: the first document is in the map and in
\* the stored text.
C34_Witness ==
    /\ op = "createMany" /\ ret = RetResult
    /\ writes = <<TRUE, FALSE>>
    /\ Len(result.outcomes) = 2
    /\ result.outcomes[1] \in Keys(data)
    /\ result.outcomes[2] = RetNull
    /\ store = Stringify(data)

(***************************************************************************)
(* export and import.                                                      *)
(***************************************************************************)

\* C26: in every reachable state, importing the text export() returns into
\* a fresh, empty collection with the same validators over a storage that
\* takes its writes returns true and leaves a map with the same
\* identifiers, the same documents and the same order.
C26_RoundTrip ==
    LET r == import(<<>>, <<>>, validators, export(data), TRUE, TRUE)
    IN  r.ret = RetTrue /\ r.data = data

\* A collection with validators whose two entries are not in the order of
\* their identifiers, and whose export a fresh collection imports.
C26_Witness ==
    /\ validators.present
    /\ Len(data) = 2 /\ data[1][1] = "1b" /\ data[2][1] = "0a"
    /\ import(<<>>, <<>>, validators, export(data), TRUE, TRUE).ret = RetTrue

\* The texts that are lists of entries with distinct identifiers.
DistinctLists ==
    {text \in ImportTexts :
        /\ Parsed[text].ok
        /\ \A i, j \in DOMAIN Parsed[text].val :
               Parsed[text].val[i][1] = Parsed[text].val[j][1] => i = j}

ReportedSuccess ==
    \/ op = "create" /\ ret \in IdSpace
    \/ op \in {"update", "delete", "clear", "import"} /\ ret = RetTrue

\* C29: after every mutating operation that reports success, whatever
\* writes failed before, the text stored under the collection key is the
\* text of the map, entry for entry and in its order.
C29_Synchronized ==
    ReportedSuccess =>
        /\ store = Stringify(data)
        /\ persisted = [some |-> TRUE, map |-> data]

\* An update that returned true on a map of two documents, which the
\* stored text parses back to.
C29_Witness ==
    /\ op = "update" /\ ret = RetTrue /\ writes = <<TRUE>>
    /\ Len(data) = 2
    /\ Parse(store).val = data

\* C30: every document of the map satisfies every registered predicate,
\* after the construction and after every create, update, delete, clear and
\* import, failed and rolled-back calls included.
C30_Valid ==
    \A i \in DOMAIN data : validate(validators, data[i][2])

\* An import with validators that returned false and left a document.
C30_Witness ==
    /\ validators.present
    /\ op = "import" /\ ret = RetFalse
    /\ Len(data) = 1

\* The identifiers of map m, in its order.
IdsOf(m) == [i \in DOMAIN m |-> m[i][1]]

\* C31: the order of the map is the order of insertion under every
\* operation: a create that returns its identifier appends the entry at the
\* end, a create that is rolled back leaves the map as it was, an update,
\* successful or rolled back, leaves every identifier at its position, and a
\* delete removes one entry and leaves the others in their order.
C31_InsertionOrder ==
    /\ \A doc \in Docs, ok \in BOOLEAN :
           validate(validators, doc) =>
               \A id \in generateId(data) :
                   LET r == create(data, store, validators, doc, id, ok)
                   IN  IF ok THEN r.data = Append(data, <<id, doc>>) ELSE r.data = data
    /\ \A id \in Keys(data), patch \in Patches, ok \in BOOLEAN :
           LET r == update(data, store, validators, id, patch, ok)
           IN  /\ IdsOf(r.data) = IdsOf(data)
               /\ \A i \in DOMAIN data : data[i][1] # id => r.data[i] = data[i]
    /\ \A id \in Keys(data), ok \in BOOLEAN :
           LET r == delete(data, store, id, ok)
           IN  r.data = SelectSeq(data, LAMBDA e : e[1] # id)

\* A map of two documents whose first document an update changes.
C31_Witness ==
    /\ Len(data) = 2
    /\ update(data, store, validators, data[1][1], [age |-> 2], TRUE).ret = RetTrue
    /\ update(data, store, validators, data[1][1], [age |-> 2], TRUE).data[1][2]
           # data[1][2]

Sub_saveChanges(m, st, ok) == IF ok THEN Stringify(m) ELSE st

\* generateId(): any draw, a key of the map or not.
Sub_generateId(m) == IdSpace

Sub_clear(m, st, ok) ==
    [data |-> <<>>, store |-> Sub_saveChanges(<<>>, st, ok), ret |-> RetVoid,
     writes |-> <<ok>>]

\* Mutant of Sub_set: the entry is taken back when the write fails.
Sub_set_RollsBack(m, st, v, id, value, ok) ==
    IF ~validate(v, value)
    THEN [data |-> m, store |-> st, ret |-> Threw, writes |-> <<>>]
    ELSE [data |-> IF ok THEN MapSet(m, id, value) ELSE m,
          store |-> Sub_saveChanges(MapSet(m, id, value), st, ok),
          ret |-> RetVoid, writes |-> <<ok>>]

\* set(id, value), which returns this (the model returns undefined).
Sub_set(m, st, v, id, value, ok) ==
    IF ~validate(v, value)
    THEN [data |-> m, store |-> st, ret |-> Threw, writes |-> <<>>]
    ELSE [data |-> MapSet(m, id, value),
          store |-> Sub_saveChanges(MapSet(m, id, value), st, ok),
          ret |-> RetVoid, writes |-> <<ok>>]

Sub_delete(m, st, id, ok) ==
    IF ~Has(m, id)
    THEN [data |-> m, store |-> st, ret |-> RetFalse, writes |-> <<>>]
    ELSE [data |-> MapDelete(m, id), store |-> Sub_saveChanges(MapDelete(m, id), st, ok),
          ret |-> RetTrue, writes |-> <<ok>>]

\* create(data): validate, draw id, this.set(id, data), return id.
Sub_create(m, st, v, doc, id, ok) ==
    IF ~validate(v, doc)
    THEN [data |-> m, store |-> st, ret |-> Threw, writes |-> <<>>]
    ELSE [Sub_set(m, st, v, id, doc, ok) EXCEPT !.ret = id]

Sub_update(m, st, v, id, patch, ok) ==
    IF ~Has(m, id)
    THEN [data |-> m, store |-> st, ret |-> RetFalse, writes |-> <<>>]
    ELSE IF ~validate(v, Merge(Get(m, id), patch))
    THEN [data |-> m, store |-> st, ret |-> Threw, writes |-> <<>>]
    ELSE [Sub_set(m, st, v, id, Merge(Get(m, id), patch), ok) EXCEPT !.ret = RetTrue]

\* The writes of the call so far, followed by the step that left r.
Sub_then(acc, r) == [r EXCEPT !.writes = acc.writes \o r.writes]

\* JSON.parse(data).forEach(([id, value]) => this.set(id, value)): the
\* first entry that set() rejects throws out of the loop.
RECURSIVE Sub_setEach(_, _, _, _)
Sub_setEach(acc, v, entries, oks) ==
    IF entries = <<>> \/ acc.ret = Threw THEN acc
    ELSE Sub_setEach(Sub_then(acc, Sub_set(acc.data, acc.store, v, entries[1][1],
                                           entries[1][2], oks[1])),
                     v, Tail(entries), Tail(oks))

\* Mutant of Sub_import: the entries are set without this.clear() first.
Sub_import_Merges(m, st, v, text, oks) ==
    IF ~ParseImported(text).ok
    THEN [data |-> m, store |-> st, ret |-> Threw, writes |-> <<>>]
    ELSE Sub_setEach([data |-> m, store |-> st, ret |-> RetVoid, writes |-> <<>>],
                     v, ParseImported(text).val, Tail(oks))

\* import(data): this.clear(), then JSON.parse and a set() per entry, each
\* with its own save; oks are the outcomes of the writes, the one of
\* clear() first.  A text that does not parse throws after the clear.
Sub_import(m, st, v, text, oks) ==
    IF ~ParseImported(text).ok
    THEN [Sub_clear(m, st, oks[1]) EXCEPT !.ret = Threw]
    ELSE Sub_setEach(Sub_clear(m, st, oks[1]), v, ParseImported(text).val, Tail(oks))

\* initialize(): every stored entry is set; a text that cannot be read or
\* parsed is answered by this.clear() and saveChanges().
Sub_initialize(st, v, readOk, ok1, ok2) ==
    IF readOk /\ st = <<>>
    THEN [data |-> <<>>, store |-> st, ret |-> RetVoid, writes |-> <<>>]
    ELSE IF readOk /\ Parse(st).ok
    THEN [data |-> SetAll(<<>>, Parse(st).val), store |-> st, ret |-> RetVoid,
          writes |-> <<>>]
    ELSE [data |-> <<>>,
          store |-> Sub_saveChanges(<<>>, Sub_clear(<<>>, st, ok1).store, ok2),
          ret |-> RetVoid, writes |-> <<ok1, ok2>>]

Sub_constructor(nameLen, st, v, readOk, ok1, ok2) ==
    IF nameLen < MinNameLen \/ nameLen > MaxNameLen
    THEN [data |-> <<>>, store |-> st, ret |-> NameError, writes |-> <<>>, reads |-> 0]
    ELSE [data |-> Sub_initialize(st, v, readOk, ok1, ok2).data,
          store |-> Sub_initialize(st, v, readOk, ok1, ok2).store,
          ret |-> RetVoid,
          writes |-> Sub_initialize(st, v, readOk, ok1, ok2).writes,
          reads |-> 1]

\* The state after the construction of an instance of the variant, with a
\* validator map that rejects some document.
SubInit ==
    \E st \in InitialStores, v \in {AgeValidator, NameValidator},
       readOk, ok1, ok2 \in BOOLEAN :
        \E r \in {Sub_constructor(MinNameLen, st, v, readOk, ok1, ok2)} :
            /\ data = r.data
            /\ store = r.store
            /\ ret = r.ret
            /\ writes = r.writes
            /\ persisted = LastSaved(r, NoSnapshot)
            /\ reads = r.reads
            /\ result = NoResult
            /\ call = NoCall
            /\ variant = NoVariant
            /\ op = "constructor"
            /\ validators = v

SubCreate(doc, id, ok) ==
    /\ Len(data) < MaxSize
    /\ id \in (IF validate(validators, doc) THEN Sub_generateId(data) ELSE {NoId})
    /\ \E r \in {Sub_create(data, store, validators, doc, id, ok)} : Apply("create", r)

SubUpdate(id, patch, ok) ==
    \E r \in {Sub_update(data, store, validators, id, patch, ok)} : Apply("update", r)

SubDelete(id, ok) ==
    \E r \in {Sub_delete(data, store, id, ok)} : Apply("delete", r)

SubClear(ok) ==
    \E r \in {Sub_clear(data, store, ok)} : Apply("clear", r)

\* The patches the update action of the variant is called with: a part of
\* Patches.
CalledPatches == {EmptyDoc, [age |-> 2]}

SubNext ==
    \/ \E doc \in Docs, id \in IdSpace \cup {NoId}, ok \in BOOLEAN : SubCreate(doc, id, ok)
    \/ \E id \in IdSpace, patch \in CalledPatches, ok \in BOOLEAN :
          SubUpdate(id, patch, ok)
    \/ \E id \in IdSpace, ok \in BOOLEAN : SubDelete(id, ok)
    \/ \E ok \in BOOLEAN : SubClear(ok)

SubSpec == SubInit /\ [][SubNext]_vars

\* C28: in the Map-subclass variant, when the write to the storage fails,
\* create still returns the new identifier, update still returns true and
\* delete still returns true, and the change stays in the map: the created
\* document is there under the identifier, the updated document is the
\* merged one, the deleted identifier is gone; the stored text is the old
\* one.
C28_VariantKeepsFailedWrites ==
    /\ \A doc \in Docs, id \in IdSpace :
           validate(validators, doc) =>
               LET r == Sub_create(data, store, validators, doc, id, FALSE)
               IN  /\ r.ret = id /\ Has(r.data, id) /\ Get(r.data, id) = doc
                   /\ r.store = store /\ r.writes = <<FALSE>>
    /\ \A id \in Keys(data), patch \in Patches :
           validate(validators, Merge(Get(data, id), patch)) =>
               LET r == Sub_update(data, store, validators, id, patch, FALSE)
               IN  /\ r.ret = RetTrue
                   /\ r.data = MapSet(data, id, Merge(Get(data, id), patch))
                   /\ r.store = store /\ r.writes = <<FALSE>>
    /\ \A id \in Keys(data) :
           LET r == Sub_delete(data, store, id, FALSE)
           IN  /\ r.ret = RetTrue /\ ~Has(r.data, id)
               /\ Len(r.data) = Len(data) - 1
               /\ r.store = store /\ r.writes = <<FALSE>>

\* A create of the variant whose write failed: it returned an identifier
\* that is a key of the map and that the stored text does not name.
C28_Witness ==
    /\ op = "create" /\ writes = <<FALSE>>
    /\ ret \in Keys(data)
    /\ ~InSnapshot(store, ret)

(***************************************************************************)
(* create(data) step by step through the loop of generateId():             *)
(*     do { id = <16 random hex digits> } while (this.data.has(id));       *)
(* A draw is any identifier of the identifier space.  Nothing else runs    *)
(* while the call is in progress.                                          *)
(***************************************************************************)
Pending == "pending"

\* The maps the calls start from: up to every identifier of the space in
\* use.
GenMaps == {m \in ReadMaps : \A i \in DOMAIN m : m[i][2] = DocAn3}

GenInit ==
    \E m \in GenMaps, v \in {NoValidators, AgeValidator} :
        \E r \in {constructor(MinNameLen, Stringify(m), v, TRUE, TRUE, TRUE)} :
            /\ data = r.data
            /\ store = r.store
            /\ ret = r.ret
            /\ writes = r.writes
            /\ persisted = LastSaved(r, NoSnapshot)
            /\ reads = r.reads
            /\ result = NoResult
            /\ call = NoCall
            /\ variant = NoVariant
            /\ op = "constructor"
            /\ validators = v

\* create(doc) up to the call of generateId(): it throws for a document
\* that fails validation.
CreateBegin(doc) ==
    /\ call.pc = "idle"
    /\ op' = "create"
    /\ writes' = <<>>
    /\ reads' = 0
    /\ result' = NoResult
    /\ IF validate(validators, doc)
       THEN /\ ret' = Pending
            /\ call' = [pc |-> "draw", doc |-> doc, id |-> NoId, redrawn |-> FALSE]
       ELSE /\ ret' = Threw
            /\ call' = NoCall
    /\ UNCHANGED <<data, store, validators, persisted, variant>>

\* The body of the loop: a candidate is drawn.
Draw(candidate) ==
    /\ call.pc = "draw"
    /\ call' = [call EXCEPT !.pc = "test", !.id = candidate]
    /\ UNCHANGED <<data, store, validators, op, ret, writes, persisted, reads, result,
                   variant>>

\* Mutant of Test: while (!this.data.has(id)).
Test_Inverted ==
    /\ call.pc = "test"
    /\ call' = IF ~Has(data, call.id)
               THEN [call EXCEPT !.pc = "draw", !.redrawn = TRUE]
               ELSE [call EXCEPT !.pc = "save"]
    /\ UNCHANGED <<data, store, validators, op, ret, writes, persisted, reads, result,
                   variant>>

\* The condition of the loop: a candidate that is a key is drawn again, any
\* other is returned.
Test ==
    /\ call.pc = "test"
    /\ call' = IF Has(data, call.id)
               THEN [call EXCEPT !.pc = "draw", !.redrawn = TRUE]
               ELSE [call EXCEPT !.pc = "save"]
    /\ UNCHANGED <<data, store, validators, op, ret, writes, persisted, reads, result,
                   variant>>

\* The rest of create: set, save, roll back or return the identifier.
CreateEnd(ok) ==
    /\ call.pc = "save"
    /\ \E r \in {create(data, store, validators, call.doc, call.id, ok)} :
           /\ op' = "create"
           /\ data' = r.data
           /\ store' = r.store
           /\ ret' = r.ret
           /\ writes' = r.writes
           /\ persisted' = LastSaved(r, persisted)
    /\ reads' = 0
    /\ result' = NoResult
    /\ call' = [call EXCEPT !.pc = "idle"]
    /\ UNCHANGED <<validators, variant>>

GenNext ==
    \/ \E doc \in Docs : CreateBegin(doc)
    \/ \E candidate \in IdSpace : Draw(candidate)
    \/ Test
    \/ \E ok \in BOOLEAN : CreateEnd(ok)

\* A fair random source: a candidate that can be drawn again and again is
\* drawn at some point; the steps of the call are taken.
GenSpec ==
    /\ GenInit
    /\ [][GenNext]_vars
    /\ WF_vars(Test)
    /\ WF_vars(\E ok \in BOOLEAN : CreateEnd(ok))
    /\ \A candidate \in IdSpace : SF_vars(Draw(candidate))

\* C32: the loop of generateId ends on the first candidate that is not a
\* key of the map: a candidate that is not a key is returned at once, the
\* identifier returned is never a key; and under a fair random source a
\* create of a valid document that has entered the loop completes whenever
\* some identifier of the space is not in use.
C32_GenerateIdTerminates ==
    /\ [](call.pc = "save" => ~Has(data, call.id))
    /\ [][call.pc = "test" /\ ~Has(data, call.id) => call'.pc = "save"]_vars
    /\ (call.pc = "draw" /\ Keys(data) # IdSpace)
           ~> (call.pc = "idle" /\ op = "create" /\ ret # Pending)

\* A create that returned its identifier after a candidate was drawn again.
C32_Witness ==
    /\ op = "create" /\ call.pc = "idle" /\ call.redrawn
    /\ ret \in Keys(data)


(***************************************************************************)
(* The class and the Map-subclass variant side by side: one instance of    *)
(* each is constructed over a property holding the same text and with the  *)
(* same validators, and both are given the same calls with the same drawn  *)
(* identifiers.  Every storage call succeeds, no drawn identifier is a key *)
(* of either map, and the text at construction and every imported text are *)
(* entry lists whose documents all pass validation.  data and store are    *)
(* those of the class, variant holds those of the variant.                 *)
(***************************************************************************)

\* The text is absent, or parses as an entry list whose documents all pass
\* validation.
ValidText(v, text) ==
    \/ text = <<>>
    \/ /\ ParseImported(text).ok
       /\ \A i \in DOMAIN ParseImported(text).val :
              validate(v, ParseImported(text).val[i][2])

\* Write outcomes of a call all of whose writes succeed.
AllWritten == [i \in 1..(MaxSize + 2) |-> TRUE]

PairInit ==
    \E st \in ImportTexts \cup {<<>>}, v \in ValidatorMaps :
        \E r \in {constructor(MinNameLen, st, v, TRUE, TRUE, TRUE)},
           s \in {Sub_constructor(MinNameLen, st, v, TRUE, TRUE, TRUE)} :
            /\ ValidText(v, st)
            /\ data = r.data
            /\ store = r.store
            /\ ret = r.ret
            /\ writes = r.writes
            /\ persisted = LastSaved(r, NoSnapshot)
            /\ reads = r.reads
            /\ result = NoResult
            /\ call = NoCall
            /\ variant = [data |-> s.data, store |-> s.store]
            /\ op = "constructor"
            /\ validators = v

\* The call named name leaves r in the class and s in the variant.
Both(name, r, s) ==
    /\ op' = name
    /\ data' = r.data
    /\ store' = r.store
    /\ ret' = r.ret
    /\ writes' = r.writes
    /\ persisted' = LastSaved(r, persisted)
    /\ reads' = 0
    /\ result' = NoResult
    /\ variant' = [data |-> s.data, store |-> s.store]
    /\ UNCHANGED <<validators, call>>

PairCreate(doc, id) ==
    /\ Len(data) < MaxSize
    /\ id \in (IF validate(validators, doc)
               THEN IdSpace \ (Keys(data) \cup Keys(variant.data)) ELSE {NoId})
    /\ Both("create", create(data, store, validators, doc, id, TRUE),
            Sub_create(variant.data, variant.store, validators, doc, id, TRUE))

PairUpdate(id, patch) ==
    Both("update", update(data, store, validators, id, patch, TRUE),
         Sub_update(variant.data, variant.store, validators, id, patch, TRUE))

PairDelete(id) ==
    Both("delete", delete(data, store, id, TRUE),
         Sub_delete(variant.data, variant.store, id, TRUE))

PairClear ==
    Both("clear", clear(data, store, TRUE), Sub_clear(variant.data, variant.store, TRUE))

PairImport(text) ==
    /\ text # <<>>
    /\ ValidText(validators, text)
    /\ Both("import", import(data, store, validators, text, TRUE, TRUE),
            Sub_import(variant.data, variant.store, validators, text, AllWritten))

PairNext ==
    \/ \E doc \in Docs, id \in IdSpace \cup {NoId} : PairCreate(doc, id)
    \/ \E id \in IdSpace, patch \in Patches : PairUpdate(id, patch)
    \/ \E id \in IdSpace : PairDelete(id)
    \/ PairClear
    \/ \E text \in ImportTexts : PairImport(text)

PairSpec == PairInit /\ [][PairNext]_vars

\* C35: when every write succeeds, no drawn identifier is a key, and the
\* text at construction and the imported texts are entry lists of valid
\* documents, the class and the Map-subclass variant hold, after the same
\* calls, the same map in the same order and the same stored text.
C35_VariantsAgree ==
    /\ variant.data = data
    /\ variant.store = store

\* Both instances after an update that returned true, each holding two
\* documents, the first with the age of the patch, and each having
\* persisted its map.
C35_Witness ==
    /\ op = "update" /\ ret = RetTrue
    /\ Len(data) = 2 /\ data[1][2] = DocAn2
    /\ Len(variant.data) = 2 /\ variant.data[1][2] = DocAn2
    /\ variant.store = Stringify(variant.data)
    /\ store = Stringify(data)

====
